---- MODULE Spec2Model ----
(***************************************************************************)
(* Model of latextools.tokenizer.Tokenizer (src/latextools/tokenizer.py).  *)
(*                                                                         *)
(* Characters are their code points 0..255, strings are sequences of code  *)
(* points.  Python's 0-based index i of a string is position i+1 of the    *)
(* sequence.  Every public method is one action; make_token is the         *)
(* recursive operator MakeToken, which also records the sequence of        *)
(* character dispatches it went through (history variable scan).           *)
(***************************************************************************)
EXTENDS Integers, Sequences, FiniteSets, TLC

\* ------------------------------------------------------------------ bounds
\* longest text enumerated over Alphabet
MaxLen == 2

\* ------------------------------------------------------- State (IntEnum)
NewLine == 0
SkippingSpaces == 1
MiddleOfLine == 2

\* ------------------------------------------------ CategoryCode (IntEnum)
EscapeCharacter == 0
BeginningOfGroup == 1
EndOfGroup == 2
MathShift == 3
AlignmentTab == 4
EndOfLine == 5
ParameterCharacter == 6
Superscript == 7
Subscript == 8
Ignored == 9
Space == 10
Letter == 11
Other == 12
Active == 13
Comment == 14
Invalid == 15
ControlSequence == 16
ParameterToken == 17

\* ------------------------------------------------------------ Python values
\* None, for the optional character endlinechar
NoChar == -1
\* None, for the optional text argument
NoText == <<-1>>
\* Token(value, code); NoToken is None where a token is expected
Token(value, code) == [value |-> value, code |-> code]
NoToken == [value |-> <<>>, code |-> -1]

\* str.isspace() for code points 0..255
IsSpace(c) == c \in {9, 10, 11, 12, 13, 28, 29, 30, 31, 32, 133, 160}
\* the line boundaries of str.splitlines() among code points 0..255
IsLineBreak(c) == c \in {10, 11, 12, 13, 28, 29, 30, 133}
\* str.isdigit() for code points 0..255
IsDigit(c) == c \in (48..57) \cup {178, 179, 185}
\* the character class [0-9a-f] of the regular expression
IsHexDigit(c) == c \in (48..57) \cup (97..102)
\* int(c, 16) for one hexadecimal digit
HexVal(c) == IF c \in 48..57 THEN c - 48 ELSE c - 87

\* ------------------------------------------------------- Line Normalizer
RECURSIVE LStrip(_)
LStrip(s) ==
    IF s # <<>> /\ IsSpace(Head(s)) THEN LStrip(Tail(s)) ELSE s

RECURSIVE RStrip(_)
RStrip(s) ==
    IF s # <<>> /\ IsSpace(s[Len(s)])
    THEN RStrip(SubSeq(s, 1, Len(s) - 1))
    ELSE s

\* str.strip()
Strip(s) == RStrip(LStrip(s))

\* position of the first line boundary of s, 0 when there is none
RECURSIVE FirstBreak(_, _)
FirstBreak(s, i) ==
    IF i > Len(s) THEN 0
    ELSE IF IsLineBreak(s[i]) THEN i
    ELSE FirstBreak(s, i + 1)

\* str.splitlines(): "\r\n" is one boundary, no empty last line
RECURSIVE SplitLines(_)
SplitLines(s) ==
    IF s = <<>> THEN <<>>
    ELSE LET i == FirstBreak(s, 1) IN
         IF i = 0 THEN <<s>>
         ELSE LET j == IF s[i] = 13 /\ i < Len(s) /\ s[i + 1] = 10
                       THEN i + 1 ELSE i
              IN <<SubSeq(s, 1, i - 1)>> \o SplitLines(SubSeq(s, j + 1, Len(s)))

\* Tokenizer.lines(): the generator, materialized
Lines(txt, elc) ==
    LET raw == SplitLines(txt) IN
    [k \in 1..Len(raw) |->
        IF elc # NoChar THEN RStrip(raw[k]) \o <<elc>> ELSE RStrip(raw[k])]

\* --------------------------------------------------------------- inputs
\* characters of the enumerated texts: \ a 0 ^ # % space newline
Alphabet == {92, 97, 48, 94, 35, 37, 32, 10}

RECURSIVE SeqsUpTo(_, _)
SeqsUpTo(S, n) ==
    IF n = 0 THEN {<<>>}
    ELSE LET shorter == SeqsUpTo(S, n - 1) IN
         shorter \cup {Append(s, c) : s \in {t \in shorter : Len(t) = n - 1}, c \in S}

\* texts of the documentation's examples, beyond the enumerated ones:
\*   \abc | a%c<nl>b | a%<nl><nl>b | ^^41 | ^^A | ^^00a | ^^25a | a<del>b
\*   #1a | ##a | a<nul>b | a<nl><nl>b | {}$&~ | a<tab><space>b<nl><space>a
ExampleTexts ==
    { <<92, 97, 98, 99>>, <<97, 37, 99, 10, 98>>, <<97, 37, 10, 10, 98>>,
      <<94, 94, 52, 49>>, <<94, 94, 65>>, <<94, 94, 48, 48, 97>>,
      <<94, 94, 50, 53, 97>>, <<97, 127, 98>>,
      <<35, 49, 97>>, <<35, 35, 97>>, <<97, 0, 98>>, <<97, 10, 10, 98>>,
      <<123, 125, 36, 38, 126>>, <<97, 9, 32, 98, 10, 32, 97>> }

Texts == SeqsUpTo(Alphabet, MaxLen) \cup ExampleTexts

\* text handed to reset() on a live engine: a, space, newline, #
ResetTexts == { <<97, 32, 10, 35>> }

\* arguments of set_endlinechar: an int, a str, or anything else
IntArg(n) == [type |-> "int", n |-> n, s |-> <<>>]
StrArg(s) == [type |-> "str", n |-> 0, s |-> s]
NoneArg == [type |-> "none", n |-> 0, s |-> <<>>]
EndlineArgs == {IntArg(13), IntArg(255), StrArg(<<13>>), StrArg(<<13, 10>>), NoneArg}

\* assignments catcodes[c] = code made by the caller while scanning
CatcodeEdits == { <<37, Other>>, <<48, ParameterCharacter>> }

\* ------------------------------------------------- Classification Table
\* the dict built by __init__: the registered defaults and the ascii letters
DefaultCatcodes ==
    [c \in {92, 123, 125, 36, 38, 13, 35, 94, 95, 0, 32, 9, 126, 37, 127}
           \cup (65..90) \cup (97..122) |->
        CASE c = 92 -> EscapeCharacter
          [] c = 123 -> BeginningOfGroup
          [] c = 125 -> EndOfGroup
          [] c = 36 -> MathShift
          [] c = 38 -> AlignmentTab
          [] c = 13 -> EndOfLine
          [] c = 35 -> ParameterCharacter
          [] c = 94 -> Superscript
          [] c = 95 -> Subscript
          [] c = 0 -> Ignored
          [] c \in {32, 9} -> Space
          [] c = 126 -> Active
          [] c = 37 -> Comment
          [] c = 127 -> Invalid
          [] OTHER -> Letter]

\* catcodes[c] of the defaultdict: unregistered characters are Other
CatOf(cat, c) == IF c \in DOMAIN cat THEN cat[c] ELSE Other

\* catcodes[c] = code
SetCat(cat, c, code) ==
    [x \in DOMAIN cat \cup {c} |-> IF x = c THEN code ELSE cat[x]]

\* set_endlinechar: the value stored in self.endlinechar
EndlineOf(arg) ==
    IF arg.type = "str" /\ Len(arg.s) = 1 /\ 0 <= arg.s[1] /\ arg.s[1] < 255
    THEN arg.s[1]
    ELSE IF arg.type = "int" /\ 0 <= arg.n /\ arg.n < 255
    THEN arg.n
    ELSE NoChar

\* ------------------------------------------------------ Tokenizer Engine
\* One pass of the body of the inner loop of make_token, per branch.  e is the
\* engine [state, currline, currchar] with currchar already advanced over the
\* dispatched character c (line 160).  The result is the engine afterwards and
\* how the pass ends: "return" (token), "break", "next" (the inner loop goes
\* on), or "raise" (exc).
Step(e, ctl, token, exc) ==
    [state |-> e.state, currline |-> e.currline, currchar |-> e.currchar,
     ctl |-> ctl, token |-> token, exc |-> exc]

\* a control word that stops after its first letter
LetterRunNone(line, cat, pos) == pos

\* the offset after the run of Letter characters that starts at offset pos
RECURSIVE LetterRun(_, _, _)
LetterRun(line, cat, pos) ==
    IF pos < Len(line) /\ CatOf(cat, line[pos + 1]) = Letter
    THEN LetterRun(line, cat, pos + 1)
    ELSE pos

DispatchEscape(line, cat, e, c) ==
    IF e.currchar >= Len(line)
    THEN \* line[self.currchar] past the end of the line
         Step(e, "raise", NoToken, "IndexError")
    ELSE LET char == line[e.currchar + 1]
             code == CatOf(cat, char)
             pos == e.currchar + 1
         IN IF code = Letter
            THEN LET end == LetterRun(line, cat, pos) IN
                 Step([e EXCEPT !.state = SkippingSpaces, !.currchar = end],
                      "return",
                      Token(<<c>> \o SubSeq(line, pos, end), ControlSequence), "")
            ELSE IF code = Space
            THEN Step([e EXCEPT !.state = SkippingSpaces, !.currchar = pos],
                      "return", Token(<<c, char>>, ControlSequence), "")
            ELSE Step([e EXCEPT !.state = MiddleOfLine, !.currchar = pos],
                      "return", Token(<<c, char>>, ControlSequence), "")

\* the text of the token \par
ParValue == <<92, 112, 97, 114>>

\* an end of line that looks at the state after the transition to NewLine
DispatchEndOfLineAfter(line, cat, e, c) ==
    Step([e EXCEPT !.currline = e.currline + 1, !.currchar = 0,
                   !.state = NewLine],
         "return", Token(ParValue, ControlSequence), "")

DispatchEndOfLine(line, cat, e, c) ==
    LET prev_state == e.state
        f == [e EXCEPT !.currline = e.currline + 1, !.currchar = 0,
                       !.state = NewLine]
    IN IF prev_state = NewLine
       THEN Step(f, "return", Token(ParValue, ControlSequence), "")
       ELSE IF prev_state = SkippingSpaces
       THEN Step(f, "break", NoToken, "")
       ELSE Step(f, "return", Token(<<32>>, Space), "")

\* a parameter character that leaves a second parameter character unconsumed
DispatchParameterKeepsSecond(line, cat, e, c) ==
    LET more == e.currchar < Len(line)
        char == line[e.currchar + 1]
        f == [e EXCEPT !.state = MiddleOfLine]
    IN IF more /\ IsDigit(char)
       THEN Step([f EXCEPT !.currchar = e.currchar + 1], "return",
                 Token(<<c, char>>, ParameterToken), "")
       ELSE Step(f, "return", Token(<<c>>, ParameterCharacter), "")

DispatchParameter(line, cat, e, c) ==
    LET more == e.currchar < Len(line)
        char == line[e.currchar + 1]
        f == [e EXCEPT !.state = MiddleOfLine]
    IN IF more /\ IsDigit(char)
       THEN Step([f EXCEPT !.currchar = e.currchar + 1], "return",
                 Token(<<c, char>>, ParameterToken), "")
       ELSE IF more /\ CatOf(cat, char) = ParameterCharacter
       THEN Step([f EXCEPT !.currchar = e.currchar + 1], "return",
                 Token(<<c>>, ParameterCharacter), "")
       ELSE Step(f, "return", Token(<<c>>, ParameterCharacter), "")

\* a superscript pair that always takes two more characters with it
DispatchSuperscriptGreedy(line, cat, e, c) ==
    IF e.currchar < Len(line) /\ CatOf(cat, line[e.currchar + 1]) = Superscript
    THEN Step([e EXCEPT !.state = MiddleOfLine, !.currchar = e.currchar + 3],
              "return", Token(<<c>>, Superscript), "")
    ELSE Step([e EXCEPT !.state = MiddleOfLine], "return",
              Token(<<c>>, Superscript), "")

DispatchSuperscript(line, cat, e, c) ==
    LET f == [e EXCEPT !.state = MiddleOfLine]
        last == IF e.currchar + 3 < Len(line) THEN e.currchar + 3 ELSE Len(line)
        chars == SubSeq(line, e.currchar + 1, last)
        enc == Tail(chars)
    IN IF Len(chars) > 1 /\ CatOf(cat, chars[1]) = Superscript
          /\ Len(enc) = 2 /\ IsHexDigit(enc[1]) /\ IsHexDigit(enc[2])
       THEN LET n == 16 * HexVal(enc[1]) + HexVal(enc[2]) IN
            IF 0 <= n /\ n < 256
            THEN Step([f EXCEPT !.currchar = e.currchar + 3], "return",
                      Token(<<n>>, CatOf(cat, n)), "")
            ELSE LET m == enc[1] IN
                 IF 0 <= m /\ m < 128
                 THEN Step([f EXCEPT !.currchar = e.currchar + 2], "return",
                           Token(<<(m + 64) % 128>>,
                                 CatOf(cat, (m + 64) % 128)), "")
                 ELSE Step(f, "return", Token(<<c>>, Superscript), "")
       ELSE Step(f, "return", Token(<<c>>, Superscript), "")

\* a space that is emitted in every state
DispatchSpaceAlways(line, cat, e, c) ==
    Step([e EXCEPT !.state = SkippingSpaces], "return",
         Token(<<32>>, Space), "")

\* a space that is emitted and leaves the lexer in the middle of the line
DispatchSpaceKeepsMiddle(line, cat, e, c) ==
    IF e.state = MiddleOfLine
    THEN Step(e, "return", Token(<<32>>, Space), "")
    ELSE Step(e, "next", NoToken, "")

DispatchSpace(line, cat, e, c) ==
    IF e.state = MiddleOfLine
    THEN Step([e EXCEPT !.state = SkippingSpaces], "return",
              Token(<<32>>, Space), "")
    ELSE Step(e, "next", NoToken, "")

\* a comment that ends its line the way an end-of-line character does
DispatchCommentAsEndOfLine(line, cat, e, c) ==
    DispatchEndOfLine(line, cat, e, c)

DispatchComment(line, cat, e, c) ==
    Step([e EXCEPT !.currline = e.currline + 1, !.currchar = 0],
         "break", NoToken, "")

\* an ordinary character that leaves the lexer state as it was
DispatchOtherKeepsState(line, cat, e, c) ==
    Step(e, "return", Token(<<c>>, CatOf(cat, c)), "")

DispatchOther(line, cat, e, c) ==
    Step([e EXCEPT !.state = MiddleOfLine], "return",
         Token(<<c>>, CatOf(cat, c)), "")

\* lines 158-249: the character at the cursor, its category, and the branch
Dispatch(line, cat, e0) ==
    LET c == line[e0.currchar + 1]
        code == CatOf(cat, c)
        e == [e0 EXCEPT !.currchar = e0.currchar + 1]
    IN CASE code = EscapeCharacter -> DispatchEscape(line, cat, e, c)
         [] code = EndOfLine -> DispatchEndOfLine(line, cat, e, c)
         [] code = ParameterCharacter -> DispatchParameter(line, cat, e, c)
         [] code = Superscript -> DispatchSuperscript(line, cat, e, c)
         [] code = Ignored -> Step(e, "next", NoToken, "")
         [] code = Space -> DispatchSpace(line, cat, e, c)
         [] code = Comment -> DispatchComment(line, cat, e, c)
         [] code = Invalid -> Step(e, "raise", NoToken, "Exception")
         [] OTHER -> DispatchOther(line, cat, e, c)

\* what one dispatch did: the engine before, the character and its category,
\* and the result of Dispatch
Record(line, cat, e0, d) ==
    [pre |-> e0, char |-> line[e0.currchar + 1],
     code |-> CatOf(cat, line[e0.currchar + 1]), eol |-> Len(line), post |-> d]

\* result of make_token: the engine afterwards, how the call ended ("ok" with
\* the token or NoToken, "raise" with exc, or "hang": it never returns), and
\* the dispatches it made
Made(e, outcome, token, exc, scanned) ==
    [state |-> e.state, currline |-> e.currline, currchar |-> e.currchar,
     outcome |-> outcome, token |-> token, exc |-> exc, scan |-> scanned]

RECURSIVE MakeTokenFrom(_, _, _, _)
MakeTokenFrom(lns, cat, e, scanned) ==
    IF ~(e.currline < Len(lns))
    THEN \* the outer loop ends; the function returns None
         Made(e, "ok", NoToken, "", scanned)
    ELSE LET line == lns[e.currline + 1] IN
         IF ~(e.currchar < Len(line))
         THEN \* the inner loop is not entered and nothing advances currline:
              \* the outer loop repeats on the same line forever
              Made(e, "hang", NoToken, "", scanned)
         ELSE LET d == Dispatch(line, cat, e)
                  f == [state |-> d.state, currline |-> d.currline,
                        currchar |-> d.currchar]
                  sc == Append(scanned, Record(line, cat, e, d))
              IN CASE d.ctl = "return" -> Made(f, "ok", d.token, "", sc)
                   [] d.ctl = "raise" -> Made(f, "raise", NoToken, d.exc, sc)
                   [] OTHER -> MakeTokenFrom(lns, cat, f, sc)

\* make_token that raises at the end of the text instead of returning None
MakeTokenRaisesAtEnd(lns, bound, cat, e) ==
    IF ~bound THEN Made(e, "raise", NoToken, "TypeError", <<>>)
    ELSE IF ~(e.currline < Len(lns))
    THEN Made(e, "raise", NoToken, "StopIteration", <<>>)
    ELSE MakeTokenFrom(lns, cat, e, <<>>)

\* make_token on an engine whose lines attribute is the list (bound = TRUE) or
\* still the method lines (bound = FALSE: len() of a method raises TypeError)
MakeToken(lns, bound, cat, e) ==
    IF ~bound THEN Made(e, "raise", NoToken, "TypeError", <<>>)
    ELSE MakeTokenFrom(lns, cat, e, <<>>)

\* ----------------------------------------------------------------- state
VARIABLES
    catcodes,     \* self.catcodes
    endlinechar,  \* self.endlinechar
    text,         \* self.text (NoText while the attribute is not set)
    lines,        \* self.lines once reset has replaced the method by the list
    bound,        \* TRUE when self.lines is the list, FALSE while it is the method
    state,        \* self.state
    currline,     \* self.currline
    currchar,     \* self.currchar
    next_token,   \* self.next_token
    call,         \* history: the last call, how it ended and what it returned
    scan,         \* history: the dispatches of the last call's make_token
    out,          \* history: the tokens get_token returned since the last reset
    mutated,      \* history: catcodes was assigned to since the last reset
    fatal         \* history: a pull raised on an Invalid character since the last reset

engine == <<state, currline, currchar, next_token>>
config == <<catcodes, endlinechar, text, lines, bound>>
vars == <<catcodes, endlinechar, text, lines, bound, state, currline, currchar,
          next_token, call, scan, out, mutated, fatal>>

Engine == [state |-> state, currline |-> currline, currchar |-> currchar]

\* the record of a call: its text argument (reset only), outcome "ok"
\* (returned ret), "raise" (exc) or "hang"; for has_token, ret is the token
\* peek() gave it and has is the value it returned, peek() is not None; char is
\* the argument of set_endlinechar
Call(op, arg, outcome, ret, exc) ==
    [op |-> op, arg |-> arg, outcome |-> outcome, ret |-> ret, exc |-> exc,
     has |-> (op = "has_token" /\ outcome = "ok" /\ ret # NoToken),
     char |-> NoneArg]

\* the caller is blocked in a call that never returns
Hung == call.outcome = "hang"

\* Tokenizer(text, endlinechar): set_endlinechar, then reset(text)
Init ==
    \E t \in Texts \cup {NoText}, a \in EndlineArgs :
        /\ catcodes = DefaultCatcodes
        /\ endlinechar = EndlineOf(a)
        /\ text = IF t = NoText THEN NoText ELSE Strip(t)
        /\ lines = IF t = NoText THEN <<>> ELSE Lines(Strip(t), EndlineOf(a))
        /\ bound = (t # NoText)
        /\ state = NewLine
        /\ currline = 0
        /\ currchar = 0
        /\ next_token = NoToken
        /\ call = Call("init", <<>>, "ok", NoToken, "")
        /\ scan = <<>>
        /\ out = <<>>
        /\ mutated = FALSE
        /\ fatal = FALSE

\* the assignments make_token makes to the cursor and the lexer state
Scanned(m) ==
    /\ state' = m.state
    /\ currline' = m.currline
    /\ currchar' = m.currchar
    /\ scan' = m.scan
    /\ fatal' = (fatal \/ (m.outcome = "raise" /\ m.exc = "Exception"))

\* peek() that scans a fresh token on every call, whatever the slot holds
PeekAsNoCache(op) ==
    LET m == MakeToken(lines, bound, catcodes, Engine) IN
    /\ Scanned(m)
    /\ next_token' = IF m.outcome = "ok" THEN m.token ELSE next_token
    /\ call' = Call(op, <<>>, m.outcome, m.token, m.exc)

\* peek(), called as op: fills the lookahead slot when it is empty
PeekAs(op) ==
    IF next_token = NoToken
    THEN LET m == MakeToken(lines, bound, catcodes, Engine) IN
         /\ Scanned(m)
         /\ next_token' = IF m.outcome = "ok" THEN m.token ELSE next_token
         /\ call' = Call(op, <<>>, m.outcome, m.token, m.exc)
    ELSE /\ UNCHANGED <<state, currline, currchar, fatal>>
         /\ scan' = <<>>
         /\ next_token' = next_token
         /\ call' = Call(op, <<>>, "ok", next_token, "")

Peek ==
    /\ ~Hung
    /\ PeekAs("peek")
    /\ UNCHANGED <<config, out, mutated>>

\* has_token(): peek() is not None
HasToken ==
    /\ ~Hung
    /\ PeekAs("has_token")
    /\ UNCHANGED <<config, out, mutated>>

\* get_token() that returns the cached token and leaves it in the slot
GetTokenKeepsSlot ==
    /\ ~Hung
    /\ IF next_token = NoToken
       THEN LET m == MakeToken(lines, bound, catcodes, Engine) IN
            /\ Scanned(m)
            /\ call' = Call("get_token", <<>>, m.outcome, m.token, m.exc)
            /\ out' = IF m.outcome = "ok" /\ m.token # NoToken
                      THEN Append(out, m.token) ELSE out
       ELSE /\ UNCHANGED <<state, currline, currchar, fatal>>
            /\ scan' = <<>>
            /\ call' = Call("get_token", <<>>, "ok", next_token, "")
            /\ out' = Append(out, next_token)
    /\ next_token' = next_token
    /\ UNCHANGED <<config, mutated>>

\* get_token(): the cached token if there is one, else a fresh one
GetToken ==
    /\ ~Hung
    /\ IF next_token = NoToken
       THEN LET m == MakeToken(lines, bound, catcodes, Engine) IN
            /\ Scanned(m)
            /\ next_token' = next_token
            /\ call' = Call("get_token", <<>>, m.outcome, m.token, m.exc)
            /\ out' = IF m.outcome = "ok" /\ m.token # NoToken
                      THEN Append(out, m.token) ELSE out
       ELSE /\ UNCHANGED <<state, currline, currchar, fatal>>
            /\ scan' = <<>>
            /\ next_token' = NoToken
            /\ call' = Call("get_token", <<>>, "ok", next_token, "")
            /\ out' = Append(out, next_token)
    /\ UNCHANGED <<config, mutated>>

\* one next() of the generator __iter__: has_token(), then yield get_token()
IterNext ==
    /\ ~Hung
    /\ IF next_token = NoToken
       THEN LET m == MakeToken(lines, bound, catcodes, Engine) IN
            /\ Scanned(m)
            /\ call' = Call("iter", <<>>, m.outcome, m.token, m.exc)
            /\ out' = IF m.outcome = "ok" /\ m.token # NoToken
                      THEN Append(out, m.token) ELSE out
       ELSE /\ UNCHANGED <<state, currline, currchar, fatal>>
            /\ scan' = <<>>
            /\ call' = Call("iter", <<>>, "ok", next_token, "")
            /\ out' = Append(out, next_token)
    /\ next_token' = NoToken
    /\ UNCHANGED <<config, mutated>>

\* reset(text): when self.lines already is the list, self.lines() raises
\* TypeError after the cursor, the state, the slot and self.text were assigned
Reset(t) ==
    /\ ~Hung
    /\ state' = NewLine
    /\ currline' = 0
    /\ currchar' = 0
    /\ next_token' = NoToken
    /\ IF t = NoText
       THEN /\ UNCHANGED <<text, lines, bound>>
            /\ call' = Call("reset", t, "ok", NoToken, "")
       ELSE /\ text' = Strip(t)
            /\ IF bound
               THEN /\ UNCHANGED <<lines, bound>>
                    /\ call' = Call("reset", t, "raise", NoToken, "TypeError")
               ELSE /\ lines' = Lines(Strip(t), endlinechar)
                    /\ bound' = TRUE
                    /\ call' = Call("reset", t, "ok", NoToken, "")
    /\ scan' = <<>>
    /\ out' = <<>>
    /\ mutated' = FALSE
    /\ fatal' = FALSE
    /\ UNCHANGED <<catcodes, endlinechar>>

\* set_endlinechar(char)
SetEndlinechar(a) ==
    /\ ~Hung
    /\ endlinechar' = EndlineOf(a)
    /\ call' = [Call("set_endlinechar", <<>>, "ok", NoToken, "") EXCEPT !.char = a]
    /\ scan' = <<>>
    /\ UNCHANGED <<catcodes, text, lines, bound, engine, out, mutated, fatal>>

\* a table assignment that also empties the lookahead slot
SetCatcodeClearsSlot(c, code) ==
    /\ ~Hung
    /\ catcodes' = SetCat(catcodes, c, code)
    /\ call' = Call("set_catcode", <<>>, "ok", NoToken, "")
    /\ scan' = <<>>
    /\ mutated' = TRUE
    /\ next_token' = NoToken
    /\ UNCHANGED <<endlinechar, text, lines, bound, state, currline, currchar,
                   out, fatal>>

\* catcodes[c] = code, by the caller
SetCatcode(c, code) ==
    /\ ~Hung
    /\ catcodes' = SetCat(catcodes, c, code)
    /\ call' = Call("set_catcode", <<>>, "ok", NoToken, "")
    /\ scan' = <<>>
    /\ mutated' = TRUE
    /\ UNCHANGED <<endlinechar, text, lines, bound, engine, out, fatal>>

Next ==
    \/ Peek
    \/ HasToken
    \/ GetToken
    \/ IterNext
    \/ \E t \in ResetTexts \cup {NoText} : Reset(t)
    \/ \E a \in EndlineArgs : SetEndlinechar(a)
    \/ \E ed \in CatcodeEdits : SetCatcode(ed[1], ed[2])

Spec == Init /\ [][Next]_vars

\* ================================================================ claims
PullOps == {"peek", "has_token", "get_token", "iter"}
PeekOps == {"peek", "has_token"}

\* no character of the materialized lines is classified Invalid
NoInvalid ==
    \A k \in 1..Len(lines) : \A i \in 1..Len(lines[k]) :
        CatOf(catcodes, lines[k][i]) # Invalid

\* C1: on a text without Invalid-classified characters every pull
\* (peek, has_token, get_token, a step of __iter__) returns: none raises and
\* none loops forever.
C1_PullsReturn ==
    (bound /\ NoInvalid /\ call.op \in PullOps) => call.outcome = "ok"

\* C2: a peek()/has_token() that directly follows a peek()/has_token() that
\* returned gives the same result (token or exhaustion) and changes neither
\* the cursor, the lexer state nor the lookahead slot.
C2_PeekIdempotent ==
    [][(call.op \in PeekOps /\ call.outcome = "ok" /\ call'.op \in PeekOps)
        => /\ call'.outcome = "ok"
           /\ call'.ret = call.ret
           /\ UNCHANGED <<state, currline, currchar, next_token>>]_vars

\* C2 witness: a peek answered from the lookahead slot, without scanning
C2_Witness ==
    /\ call.op = "peek"
    /\ call.outcome = "ok"
    /\ scan = <<>>
    /\ next_token # NoToken
    /\ call.ret = next_token

\* the tokens successive make_token calls yield from engine e on, with no
\* peek in between (a call that raises yields none and the next one goes on)
RECURSIVE RefFrom(_, _, _)
RefFrom(lns, cat, e) ==
    LET m == MakeTokenFrom(lns, cat, e, <<>>)
        f == [state |-> m.state, currline |-> m.currline, currchar |-> m.currchar]
    IN CASE m.outcome = "hang" -> <<>>
         [] m.outcome = "raise" -> RefFrom(lns, cat, f)
         [] m.token = NoToken -> <<>>
         [] OTHER -> <<m.token>> \o RefFrom(lns, cat, f)

RefTokens ==
    IF bound
    THEN RefFrom(lines, catcodes, [state |-> NewLine, currline |-> 0, currchar |-> 0])
    ELSE <<>>

\* the tokens returned so far, and the one in the slot, are the first tokens
\* of the peek-free scan
C3_SameStream ==
    ~mutated =>
        LET ref == RefTokens IN
        /\ Len(out) <= Len(ref)
        /\ out = SubSeq(ref, 1, Len(out))
        /\ next_token # NoToken =>
              (Len(out) < Len(ref) /\ next_token = ref[Len(out) + 1])

\* C3: peek() and has_token() consume nothing. While the table is not
\* assigned to, the tokens get_token() returned are, under every interleaving
\* of peek()/has_token(), a prefix of the tokens of the peek-free scan; and a
\* get_token() that directly follows a peek()/has_token() returns that call's
\* token and leaves the lookahead slot empty.
C3_NonConsuming ==
    /\ []C3_SameStream
    /\ [][(call.op \in PeekOps /\ call.outcome = "ok" /\ call'.op = "get_token")
           => /\ call'.outcome = "ok"
              /\ call'.ret = call.ret
              /\ next_token' = NoToken]_vars

\* C3 witness: the second token came out of the lookahead slot
C3_Witness ==
    /\ call.op = "get_token"
    /\ scan = <<>>
    /\ call.ret # NoToken
    /\ Len(out) = 2
    /\ ~mutated

\* C4: once a pull has raised on an Invalid character, no later pull (before
\* a reset) returns a token: scanning does not go on past that character.
C4_InvalidIsFatal ==
    (fatal /\ call.op \in PullOps /\ call.outcome = "ok") => call.ret = NoToken

\* C5: every reset(text) succeeds and leaves the cursor at (0, 0), the state
\* NewLine, the slot empty and the lines those of the new text.
C5_ResetSucceeds ==
    (call.op = "reset" /\ call.arg # NoText) =>
        /\ call.outcome = "ok"
        /\ state = NewLine
        /\ currline = 0
        /\ currchar = 0
        /\ next_token = NoToken
        /\ lines = Lines(Strip(call.arg), endlinechar)

\* the dispatches of the last call, and whether dispatch i was its last step
Scans == DOMAIN scan
IsLast(i) == i = Len(scan)

\* the engine after the call is the engine after its last dispatch, and a
\* token that dispatch returned is the token the call returned
LastStepIsResult(i) ==
    IsLast(i) =>
        /\ state = scan[i].post.state
        /\ currline = scan[i].post.currline
        /\ currchar = scan[i].post.currchar
        /\ scan[i].post.ctl = "return" =>
              (call.outcome = "ok" /\ call.ret = scan[i].post.token)

\* a dispatch that emits nothing is followed, in the same call, by the
\* dispatch at the cursor it left (or by the end of the call)
GoesOn(i) ==
    /\ scan[i].post.token = NoToken
    /\ ~IsLast(i) =>
          /\ scan[i + 1].pre.state = scan[i].post.state
          /\ scan[i + 1].pre.currline = scan[i].post.currline
          /\ scan[i + 1].pre.currchar = scan[i].post.currchar

\* line k (from 1) holds nothing but its end-of-line marker and lies between
\* two lines that hold more
BlankBetween(k) ==
    /\ 1 < k
    /\ k < Len(lines)
    /\ Len(lines[k]) = 1
    /\ Len(lines[k - 1]) > 1
    /\ Len(lines[k + 1]) > 1

\* the end-of-line table: the token depends on the state before the event
EndOfLineRow(r) ==
    /\ r.post.currline = r.pre.currline + 1
    /\ r.post.currchar = 0
    /\ r.post.state = NewLine
    /\ r.pre.state = NewLine =>
          (r.post.ctl = "return" /\ r.post.token = Token(<<92, 112, 97, 114>>, ControlSequence))
    /\ r.pre.state = SkippingSpaces =>
          (r.post.ctl = "break" /\ r.post.token = NoToken)
    /\ r.pre.state = MiddleOfLine =>
          (r.post.ctl = "return" /\ r.post.token = Token(<<32>>, Space))

\* C6 as stated: the end-of-line table, and every blank line between two
\* non-blank lines yields exactly one \par token.
C6_BlankLineAlwaysPar ==
    \A i \in Scans :
        scan[i].code = EndOfLine =>
            /\ EndOfLineRow(scan[i])
            /\ BlankBetween(scan[i].pre.currline + 1) =>
                  scan[i].post.token = Token(<<92, 112, 97, 114>>, ControlSequence)

\* C6 (amended): an EndOfLine character moves the cursor to offset 0 of the
\* next line, sets the state NewLine and emits \par, nothing or a Space
\* according to the state before it (NewLine, SkippingSpaces, MiddleOfLine);
\* a blank line yields exactly one \par token when it is reached in state
\* NewLine.
C6_EndOfLine ==
    \A i \in Scans :
        scan[i].code = EndOfLine =>
            /\ EndOfLineRow(scan[i])
            /\ LastStepIsResult(i)
            /\ scan[i].post.ctl = "break" => GoesOn(i)
            /\ (scan[i].eol = 1 /\ scan[i].pre.state = NewLine) =>
                  (IsLast(i) /\ call.ret = Token(<<92, 112, 97, 114>>, ControlSequence))

\* C6 witness: a blank line between two non-blank lines, reached in state
\* NewLine, has just produced \par
C6_Witness ==
    /\ scan # <<>>
    /\ scan[Len(scan)].code = EndOfLine
    /\ scan[Len(scan)].pre.state = NewLine
    /\ BlankBetween(scan[Len(scan)].pre.currline + 1)
    /\ call.outcome = "ok"
    /\ call.ret = Token(<<92, 112, 97, 114>>, ControlSequence)

\* the lines of "a%c" / "b" with the default marker
CommentExample == << <<97, 37, 99, 13>>, <<98, 13>> >>

\* C7: a Comment character emits no token, leaves the state, and moves the
\* cursor to offset 0 of the next line, where the same call goes on; on the
\* lines "a%c" and "b" the first two tokens are those of a and of b.
C7_Comment ==
    /\ \A i \in Scans :
          scan[i].code = Comment =>
              /\ scan[i].post.ctl = "break"
              /\ scan[i].post.state = scan[i].pre.state
              /\ scan[i].post.currline = scan[i].pre.currline + 1
              /\ scan[i].post.currchar = 0
              /\ GoesOn(i)
              /\ LastStepIsResult(i)
    /\ (lines = CommentExample /\ catcodes = DefaultCatcodes /\ Len(out) >= 2) =>
          (out[1] = Token(<<97>>, Letter) /\ out[2] = Token(<<98>>, Letter))

\* C7 witness: b has just been returned, by the call that skipped the comment
C7_Witness ==
    /\ lines = CommentExample
    /\ catcodes = DefaultCatcodes
    /\ out = <<Token(<<97>>, Letter), Token(<<98>>, Letter)>>
    /\ Len(scan) = 2
    /\ scan[1].code = Comment

\* the line a dispatch of the last call was made on
LineOf(r) == lines[r.pre.currline + 1]

\* the line of r with the k characters from the dispatched one on replaced by
\* the single character ch
Replaced(r, k, ch) ==
    SubSeq(LineOf(r), 1, r.pre.currchar) \o <<ch>>
        \o SubSeq(LineOf(r), r.pre.currchar + k + 1, Len(LineOf(r)))

\* dispatch r, which consumed a k-character superscript form, did what the
\* dispatch of the literal character ch at the same place does
AsLiteral(r, k, ch) ==
    LET lit == Dispatch(Replaced(r, k, ch), catcodes, r.pre) IN
    /\ r.post.ctl = lit.ctl
    /\ r.post.token = lit.token
    /\ r.post.exc = lit.exc
    /\ r.post.state = lit.state
    /\ r.post.currline = lit.currline
    /\ r.post.currline = r.pre.currline => r.post.currchar = lit.currchar + (k - 1)

\* r dispatched a Superscript character followed by a Superscript-classified
\* character and two lowercase hexadecimal digits
HexForm(r) ==
    /\ r.code = Superscript
    /\ r.pre.currchar + 4 <= Len(LineOf(r))
    /\ CatOf(catcodes, LineOf(r)[r.pre.currchar + 2]) = Superscript
    /\ IsHexDigit(LineOf(r)[r.pre.currchar + 3])
    /\ IsHexDigit(LineOf(r)[r.pre.currchar + 4])

HexChar(r) ==
    16 * HexVal(LineOf(r)[r.pre.currchar + 3]) + HexVal(LineOf(r)[r.pre.currchar + 4])

\* C8: the hexadecimal superscript form behaves as the literal character
\* chr(0xhh) dispatched at the same place under the current table.
C8_HexAsLiteral ==
    \A i \in Scans : HexForm(scan[i]) => AsLiteral(scan[i], 4, HexChar(scan[i]))

\* r dispatched a Superscript character followed by a Superscript-classified
\* character and a character below 128 that starts no pair of hex digits
SingleForm(r) ==
    /\ r.code = Superscript
    /\ r.pre.currchar + 3 <= Len(LineOf(r))
    /\ CatOf(catcodes, LineOf(r)[r.pre.currchar + 2]) = Superscript
    /\ LineOf(r)[r.pre.currchar + 3] < 128
    /\ ~HexForm(r)

SingleChar(r) == (LineOf(r)[r.pre.currchar + 3] + 64) % 128

\* C9: the single-character superscript form behaves as the literal character
\* chr((code(c)+64) mod 128) dispatched at the same place, and "^^A" under the
\* default table is handled as a comment.
C9_SingleAsLiteral ==
    \A i \in Scans :
        SingleForm(scan[i]) =>
            /\ AsLiteral(scan[i], 3, SingleChar(scan[i]))
            /\ (LineOf(scan[i])[scan[i].pre.currchar + 3] = 65
                /\ catcodes = DefaultCatcodes) =>
                  (scan[i].post.ctl = "break" /\ scan[i].post.token = NoToken)

\* C10: a Parameter character p followed by a digit d gives (p+d,
\* ParameterToken) and consumes both; else, followed by a Parameter-classified
\* character, gives (p, ParameterCharacter) and consumes both; else gives
\* (p, ParameterCharacter) and consumes p alone, so that the cursor is on the
\* following character. The state becomes MiddleOfLine in every case.
C10_Parameter ==
    \A i \in Scans :
        scan[i].code = ParameterCharacter =>
            LET r == scan[i]
                p == r.char
                at == r.pre.currchar
                has == at + 2 <= Len(LineOf(r))
                nxt == LineOf(r)[at + 2]
            IN /\ r.post.ctl = "return"
               /\ r.post.state = MiddleOfLine
               /\ r.post.currline = r.pre.currline
               /\ LastStepIsResult(i)
               /\ IF has /\ nxt \in (48..57) \cup {178, 179, 185}
                  THEN /\ r.post.token = Token(<<p, nxt>>, ParameterToken)
                       /\ r.post.currchar = at + 2
                  ELSE IF has /\ CatOf(catcodes, nxt) = ParameterCharacter
                  THEN /\ r.post.token = Token(<<p>>, ParameterCharacter)
                       /\ r.post.currchar = at + 2
                  ELSE /\ r.post.token = Token(<<p>>, ParameterCharacter)
                       /\ r.post.currchar = at + 1

\* C10 witness: a parameter character followed by another one has just been
\* returned as (p, ParameterCharacter), both consumed
C10_Witness ==
    /\ Len(scan) = 1
    /\ scan[1].code = ParameterCharacter
    /\ scan[1].pre.currchar + 2 <= Len(LineOf(scan[1]))
    /\ CatOf(catcodes, LineOf(scan[1])[scan[1].pre.currchar + 2]) = ParameterCharacter
    /\ ~IsDigit(LineOf(scan[1])[scan[1].pre.currchar + 2])
    /\ call.outcome = "ok"
    /\ call.ret = Token(<<scan[1].char>>, ParameterCharacter)
    /\ currchar = scan[1].pre.currchar + 2

\* the line "\abc" with the default marker, and its only token
ControlWordExample == << <<92, 97, 98, 99, 13>> >>
ControlWordToken == Token(<<92, 97, 98, 99>>, ControlSequence)

\* C11: an Escape character followed by a Letter gives one ControlSequence
\* token, the escape character and the maximal run of Letters after it on the
\* line, and the state SkippingSpaces; a Space or EndOfLine character
\* dispatched in that state emits no token; the input "\abc" yields that one
\* token and nothing else.
C11_ControlWord ==
    /\ \A i \in Scans :
          LET r == scan[i]
              at == r.pre.currchar
          IN (r.code = EscapeCharacter /\ at + 2 <= r.eol
              /\ CatOf(catcodes, LineOf(r)[at + 2]) = Letter) =>
                /\ r.post.ctl = "return"
                /\ r.post.state = SkippingSpaces
                /\ r.post.currline = r.pre.currline
                /\ r.post.currchar >= at + 2
                /\ r.post.token =
                      Token(SubSeq(LineOf(r), at + 1, r.post.currchar), ControlSequence)
                /\ \A k \in (at + 2)..r.post.currchar :
                      CatOf(catcodes, LineOf(r)[k]) = Letter
                /\ r.post.currchar < r.eol =>
                      CatOf(catcodes, LineOf(r)[r.post.currchar + 1]) # Letter
                /\ LastStepIsResult(i)
    /\ \A i \in Scans :
          (scan[i].pre.state = SkippingSpaces /\ scan[i].code \in {Space, EndOfLine})
              => GoesOn(i)
    /\ (lines = ControlWordExample /\ catcodes = DefaultCatcodes) =>
          /\ out \in {<<>>, <<ControlWordToken>>}
          /\ next_token \in {NoToken, ControlWordToken}
          /\ call.op \in PullOps => call.outcome = "ok"

\* C11 witness: "\abc" gave its token and the next pull reported exhaustion,
\* after the end of line was passed in state SkippingSpaces
C11_Witness ==
    /\ lines = ControlWordExample
    /\ catcodes = DefaultCatcodes
    /\ out = <<ControlWordToken>>
    /\ call.op = "get_token"
    /\ call.ret = NoToken
    /\ Len(scan) = 1
    /\ scan[1].code = EndOfLine
    /\ scan[1].pre.state = SkippingSpaces

\* C12: a character classified group-open, group-close, math-shift,
\* alignment-tab, other or active gives one token, that character with its own
\* category, consumes that character alone and sets the state MiddleOfLine.
C12_Verbatim ==
    \A i \in Scans :
        scan[i].code \in {BeginningOfGroup, EndOfGroup, MathShift, AlignmentTab,
                          Other, Active} =>
            /\ scan[i].post.ctl = "return"
            /\ scan[i].post.token = Token(<<scan[i].char>>, scan[i].code)
            /\ scan[i].post.currline = scan[i].pre.currline
            /\ scan[i].post.currchar = scan[i].pre.currchar + 1
            /\ scan[i].post.state = MiddleOfLine
            /\ LastStepIsResult(i)

\* C12 witness: a group-open character reached in another state than
\* MiddleOfLine has just been returned as itself
C12_Witness ==
    /\ Len(scan) = 1
    /\ scan[1].code = BeginningOfGroup
    /\ scan[1].pre.state = NewLine
    /\ call.outcome = "ok"
    /\ call.ret = Token(<<123>>, BeginningOfGroup)
    /\ state = MiddleOfLine
    /\ currchar = 1

\* the cursor has passed the last line
PastLastLine == bound /\ currline >= Len(lines)

\* the engine is exhausted: past the last line with nothing in the slot
Exhausted == PastLastLine /\ next_token = NoToken

\* has_token() returned true exactly when its peek() gave a token, the one
\* now in the slot
HasIffPeek ==
    (call.op = "has_token" /\ call.outcome = "ok") =>
        /\ call.has = (call.ret # NoToken)
        /\ call.ret = next_token

\* every pull returns, without a token
PullsNothing ==
    call'.op \in PullOps =>
        (call'.outcome = "ok" /\ call'.ret = NoToken /\ ~call'.has)

\* C13 as stated: has_token() is true iff peek() yields a token, and from the
\* moment the cursor has passed the last line every pull returns no token,
\* until a reset.
C13_PastLastLineNoToken ==
    /\ []HasIffPeek
    /\ [][(PastLastLine /\ call'.op # "reset") => (PullsNothing /\ PastLastLine')]_vars

\* C13 (amended): has_token() is true iff peek() yields a token, and from the
\* moment the cursor has passed the last line and the lookahead slot is empty
\* every pull returns no token without raising and the engine stays so,
\* until a reset.
C13_Exhaustion ==
    /\ []HasIffPeek
    /\ [][(Exhausted /\ call'.op # "reset") => (PullsNothing /\ Exhausted')]_vars

\* C13 witness: has_token() has just answered false on an exhausted engine
\* that had given tokens
C13_Witness ==
    /\ Exhausted
    /\ call.op = "has_token"
    /\ call.outcome = "ok"
    /\ ~call.has
    /\ scan = <<>>
    /\ Len(out) >= 1

\* the argument is a single character of code 0..254, as a str or as an int
WellFormed(a) ==
    \/ a.type = "str" /\ Len(a.s) = 1 /\ a.s[1] \in 0..254
    \/ a.type = "int" /\ a.n \in 0..254

\* the character a well-formed argument names
CharOf(a) == IF a.type = "str" THEN a.s[1] ELSE a.n

\* set_endlinechar returned, and stored the character or "disabled"
EndlineStored ==
    call.op = "set_endlinechar" =>
        /\ call.outcome = "ok"
        /\ WellFormed(call.char) => endlinechar = CharOf(call.char)
        /\ ~WellFormed(call.char) => endlinechar = NoChar

\* the lines are the right-stripped lines of the stripped text txt, each
\* followed by the configured character when there is one
LinesAre(txt) ==
    LET raw == SplitLines(Strip(txt)) IN
    /\ Len(lines) = Len(raw)
    /\ \A k \in 1..Len(raw) :
          lines[k] = IF endlinechar = NoChar THEN RStrip(raw[k])
                     ELSE Append(RStrip(raw[k]), endlinechar)

\* the constructor materialized the lines of its text under its configuration
LinesAtInit == (call.op = "init" /\ bound) => LinesAre(text)

\* C14: set_endlinechar never raises and stores "disabled" for a malformed
\* value and the character for a well-formed one; the constructor and every
\* following reset(text) materialize the right-stripped lines of the stripped
\* text, with that character appended to each line when one is configured and
\* nothing appended otherwise.
C14_EndlineConfig ==
    /\ EndlineStored
    /\ LinesAtInit
    /\ (call.op = "reset" /\ call.arg # NoText) =>
          (call.outcome = "ok" /\ LinesAre(call.arg))

\* the cursor stands at the end of a line that is not past the last one, with
\* nothing cached: the next pull has to scan from there
AtLineEnd ==
    /\ bound
    /\ currline < Len(lines)
    /\ currchar >= Len(lines[currline + 1])
    /\ next_token = NoToken

\* C15: when the offset has reached the length of the current line, the next
\* pull returns and leaves the cursor on a later line (offset 0 of the
\* following line, or further if it scanned on).
C15_LineExhaustionAdvances ==
    [][(AtLineEnd /\ call'.op \in PullOps) =>
          (call'.outcome # "hang" /\ currline' > currline)]_vars

\* the scanned character is an Escape and the last character of its line
EscapeAtLineEnd(r) ==
    /\ r.code = EscapeCharacter
    /\ r.pre.currchar + 1 = r.eol

\* C16: an Escape that is the final character of its line does not make the
\* scan read past the line: the dispatch returns a ControlSequence token or
\* raises a dedicated error, never IndexError.
C16_EscapeAtLineEnd ==
    \A i \in Scans :
        EscapeAtLineEnd(scan[i]) =>
            /\ scan[i].post.ctl \in {"return", "raise"}
            /\ scan[i].post.exc # "IndexError"
            /\ scan[i].post.ctl = "return" =>
                  scan[i].post.token.code = ControlSequence
            /\ scan[i].post.currchar <= scan[i].eol
            /\ IsLast(i) => call.exc # "IndexError"

\* the dispatch consumed its one character and emitted nothing; the scan goes
\* on in the same lexer state
Dropped(i) ==
    /\ scan[i].post.ctl = "next"
    /\ scan[i].post.state = scan[i].pre.state
    /\ scan[i].post.currline = scan[i].pre.currline
    /\ scan[i].post.currchar = scan[i].pre.currchar + 1
    /\ GoesOn(i)

\* C17: a Space-classified character scanned in MiddleOfLine is returned as
\* (" ", Space), whatever the character, and the state becomes SkippingSpaces;
\* scanned in NewLine or SkippingSpaces it is dropped: no token, same state.
\* An Ignored-classified character is dropped in every state.
C17_SpaceCollapsing ==
    \A i \in Scans :
        /\ (scan[i].code = Space /\ scan[i].pre.state = MiddleOfLine) =>
              /\ scan[i].post.ctl = "return"
              /\ scan[i].post.token = Token(<<32>>, Space)
              /\ scan[i].post.state = SkippingSpaces
              /\ scan[i].post.currline = scan[i].pre.currline
              /\ scan[i].post.currchar = scan[i].pre.currchar + 1
              /\ LastStepIsResult(i)
        /\ (scan[i].code = Space /\ scan[i].pre.state \in {NewLine, SkippingSpaces}) =>
              Dropped(i)
        /\ scan[i].code = Ignored => Dropped(i)

\* a tab in the middle of a line came back as a single space
C17_Witness ==
    /\ call.op \in PullOps /\ call.outcome = "ok"
    /\ \E i \in Scans :
          /\ scan[i].char = 9 /\ scan[i].code = Space
          /\ scan[i].pre.state = MiddleOfLine
          /\ IsLast(i) /\ call.ret = Token(<<32>>, Space)
    /\ state = SkippingSpaces

\* cursor (l1, c1) is not after cursor (l2, c2)
NotAfter(l1, c1, l2, c2) == l1 < l2 \/ (l1 = l2 /\ c1 <= c2)

\* the cursor is on a line at an offset of at most its length, or past the
\* last line
CursorInBounds ==
    bound =>
        /\ currline \in 0..Len(lines)
        /\ currchar >= 0
        /\ currline < Len(lines) => currchar <= Len(lines[currline + 1])

\* every dispatch of the last scan started inside its line, ended at an offset
\* of at most the length of that line or on the next line, and did not move
\* the cursor back
ScanInBounds ==
    \A i \in Scans :
        /\ scan[i].pre.currline < Len(lines)
        /\ scan[i].pre.currchar < scan[i].eol
        /\ NotAfter(scan[i].pre.currline, scan[i].pre.currchar + 1,
                    scan[i].post.currline, scan[i].post.currchar)
        /\ \/ /\ scan[i].post.currline = scan[i].pre.currline
              /\ scan[i].post.currchar <= scan[i].eol
           \/ /\ scan[i].post.currline = scan[i].pre.currline + 1
              /\ scan[i].post.currchar = 0

\* C18: the cursor (line index, offset) never moves back except by reset, the
\* line index never exceeds the number of lines, and on a line the offset
\* never exceeds the length of that line.
C18_CursorInvariant ==
    /\ [](CursorInBounds /\ ScanInBounds)
    /\ [][call'.op # "reset" =>
             NotAfter(currline, currchar, currline', currchar')]_vars

\* a superscript pair with fewer than two characters after it was returned as
\* a literal superscript, consuming one character
C18_Witness ==
    \E i \in Scans :
        /\ scan[i].code = Superscript
        /\ scan[i].pre.currchar + 2 <= scan[i].eol
        /\ scan[i].pre.currchar + 4 > scan[i].eol
        /\ CatOf(catcodes, LineOf(scan[i])[scan[i].pre.currchar + 2]) = Superscript
        /\ scan[i].post.token = Token(<<scan[i].char>>, Superscript)
        /\ scan[i].post.currchar = scan[i].pre.currchar + 1
        /\ IsLast(i) /\ currchar = scan[i].post.currchar

\* an assignment to the table leaves the cursor, the lexer state, the
\* lookahead slot and the lines as they were
MutationFrame ==
    call'.op = "set_catcode" => UNCHANGED <<engine, lines>>

\* get_token() right after an assignment made with the slot full returns the
\* cached token, empties the slot and scans nothing
CachedSurvives ==
    (call.op = "set_catcode" /\ next_token # NoToken /\ call'.op = "get_token") =>
        /\ call'.outcome = "ok"
        /\ call'.ret = next_token
        /\ next_token' = NoToken
        /\ scan' = <<>>
        /\ UNCHANGED <<state, currline, currchar>>

\* the characters a call scanned were classified under the table as it is
\* after the call, that is as it was when the call was made
ScannedUnderTable ==
    \A i \in Scans :
        /\ scan[i].code = CatOf(catcodes, scan[i].char)
        /\ scan[i].post.token = Token(<<scan[i].char>>, Other) =>
              CatOf(catcodes, scan[i].char) = Other

\* C19: a table assignment changes neither cursor, lexer state, lookahead slot
\* nor lines; the get_token() after it returns a token cached before it as it
\* was classified then, without rescanning; every character scanned after it
\* is classified under the new table.
C19_MutationScope ==
    /\ []ScannedUnderTable
    /\ [][MutationFrame /\ CachedSurvives]_vars

\* get_token() returned "0" as an Other token from the slot although the
\* table now classifies "0" as a parameter character
C19_Witness ==
    /\ call.op = "get_token" /\ call.outcome = "ok"
    /\ call.ret = Token(<<48>>, Other)
    /\ scan = <<>>
    /\ mutated
    /\ CatOf(catcodes, 48) = ParameterCharacter

\* no character of the lines is classified Superscript
NoSuperscript ==
    \A k \in 1..Len(lines) : \A j \in 1..Len(lines[k]) :
        CatOf(catcodes, lines[k][j]) # Superscript

\* the token stream so far: the tokens handed out, then the one in the slot
Stream == IF next_token = NoToken THEN out ELSE Append(out, next_token)

\* C20: on an input without Superscript-classified characters the token
\* stream has no two adjacent Space tokens: a scan that emits a Space token
\* leaves the lexer in NewLine or SkippingSpaces, and the lexer is in
\* MiddleOfLine only when the last token emitted is not a Space token.
C20_NoAdjacentSpaces ==
    (bound /\ NoSuperscript) =>
        /\ \A i \in 1..(Len(Stream) - 1) :
              ~(Stream[i].code = Space /\ Stream[i + 1].code = Space)
        /\ \A i \in Scans :
              (scan[i].post.ctl = "return" /\ scan[i].post.token.code = Space) =>
                  scan[i].post.state \in {NewLine, SkippingSpaces}
        /\ (state = MiddleOfLine /\ Stream # <<>>) =>
              Stream[Len(Stream)].code # Space

\* two Space tokens came out, one for a tab and one for the end of the line,
\* with another token between them and the blanks after each dropped
C20_Witness ==
    /\ bound /\ NoSuperscript
    /\ Len(out) >= 5
    /\ out[2] = Token(<<32>>, Space)
    /\ out[3].code = Letter
    /\ out[4] = Token(<<32>>, Space)
    /\ out[5].code = Letter

====
